---- MODULE Spec2Model ----
(***************************************************************************)
(* A model of snapshot.py: the wallet hub (bindings sheet, master and      *)
(* named wallet sheets behind a rate-limited store wrapper with a read     *)
(* cache) and the paginated snapshot fetch loop.                           *)
(*                                                                         *)
(* The bot runs on one asyncio event loop: a handler runs without          *)
(* interruption from one `await` to the next (the gspread and requests     *)
(* calls are synchronous), so every action below is the code between two   *)
(* awaits of one handler.                                                  *)
(***************************************************************************)
EXTENDS Integers, Sequences, FiniteSets, TLC

VARIABLES
  sheets,        \* remote store: worksheet title -> sequence of rows
  worksheets,    \* remote store: titles of the worksheets that exist
  ws_cache,      \* _ws_cache: titles with a cached worksheet handle
  values_cache,  \* _values_cache: title -> <<>> (no entry) or <<values>>
  remote,        \* remote store: the failure it is going to answer with, and
                 \* the exception a handler has in flight
  hubMessages,   \* Discord: hub messages posted, message id = index
  clock,         \* datetime.utcnow(), as a logical instant
  bindReq,       \* /register_wallet invocations in flight
  dialogs,       \* Discord: open ConfirmChangeView views and wallet modals
  last,          \* the wallet handler that ran last and the reply it sent
  steps,         \* wallet interactions handled so far
  listReq,       \* the /check_sheet_binding invocation in flight
  upsertCall,    \* the arguments of _upsert_wallet and the calls made with them
  fetch          \* the locals of one run of /snapshot and what it has sent

storeVars == <<sheets, worksheets, ws_cache, values_cache, remote>>
bindVars == <<hubMessages, clock, bindReq>>
walletVars == <<dialogs, last, steps, listReq>>
vars == <<sheets, worksheets, ws_cache, values_cache, remote, hubMessages, clock,
          bindReq, dialogs, last, steps, listReq, upsertCall, fetch>>

-----------------------------------------------------------------------------
(* Bounds of the model *)

\* /register_wallet invocations per run
MaxBindReqs == 2

\* wallet interactions (button presses, dialog submits) per run
MaxSteps == 5
\* ConfirmChangeView views and wallet modals open at the same time
MaxDialogs == 2

\* hub messages with a binding row: message i is bound to WALLET_SHEET_MAP[i]
BoundHubs == {1, 2}

\* users pressing buttons, the names str(interaction.user) gives them, and the
\* texts typed into the wallet modal
Users == {1, 2}
NamesOf(u) == IF u = 1 THEN {<<"x">>, <<"y">>} ELSE {<<"z">>}
Names == {<<"x">>, <<"y">>, <<"z">>}
WalletInputs == {<<"A">>, <<" ">>, <<" ", "B">>}

\* rows a wallet sheet holds before _upsert_wallet is called on it
MaxRows == 2
\* user ids 1..NumIds in those rows
NumIds == 3

\* guild ids, channel ids and button numbers the commands come with
Guilds == {1, 2}
Channels == {11, 12}
Buttons == {1, 2}
\* the (guild id, button number) pairs /register_wallet comes with: two sheets
\* in one guild, one sheet in two guilds
BindPairs == {<<1, 1>>, <<1, 2>>, <<2, 1>>}

-----------------------------------------------------------------------------
(* Program constants *)

WALLET_SHEET_MAP == [n \in 1..3 |->
  CASE n = 1 -> "wallet_log" [] n = 2 -> "wallet_log2" [] n = 3 -> "wallet_log3"]
ALL_WALLET_SHEETS == <<"wallet_log", "wallet_log2", "wallet_log3">>
MASTER_SHEET == "wallet_master"
BINDINGS_SHEET == "bindings"
LOG_SHEET == "log"
BINDINGS_HEADER == <<"GuildID", "ChannelID", "MessageID", "SheetName", "CreatedAtISO">>

Titles == {MASTER_SHEET, BINDINGS_SHEET, LOG_SHEET} \cup
          {ALL_WALLET_SHEETS[i] : i \in 1..Len(ALL_WALLET_SHEETS)}

-----------------------------------------------------------------------------
(* Python values *)

\* Optional[T]: None is <<>>, a value v is <<v>>
None == <<>>
Some(v) == <<v>>

\* str(n) of a non-negative int, and int(s) as ToInt of such a string
Digit(d) ==
  CASE d = 0 -> "0" [] d = 1 -> "1" [] d = 2 -> "2" [] d = 3 -> "3" [] d = 4 -> "4"
    [] d = 5 -> "5" [] d = 6 -> "6" [] d = 7 -> "7" [] d = 8 -> "8" [] d = 9 -> "9"
RECURSIVE Str(_)
Str(n) == IF n < 10 THEN Digit(n) ELSE Str(n \div 10) \o Digit(n % 10)
ToInt(s) == CHOOSE n \in 0..99 : Str(n) = s

-----------------------------------------------------------------------------
(* sheets_call.  The remote store answers every invocation of a wrapped     *)
(* operation with an outcome: the operation goes through, or it raises.     *)
(* remote.countdown = k > 0 says that the k-th sheets_call from now meets   *)
(* remote.outcomes, one outcome per invocation, and that the invocations    *)
(* after them go through; every other sheets_call goes through at once.     *)
(* remote.run is what sheets_call does with these outcomes, remote.met says *)
(* that the call has been made, and remote.raised is the exception that is  *)
(* propagating through the handler ("none": no exception).                  *)

\* code in (429, 500, 502, 503, 504)
RetryCodes == {429, 500, 502, 503, 504}
\* delay = 0.5, in milliseconds
first_delay == 500
\* range(4)
attempts == 4

\* outcomes of one invocation; response is the truth value of e.response
Ok == [type |-> "ok", status_code |-> 0, response |-> FALSE]
APIError(status_code, response) ==
  [type |-> "APIError", status_code |-> status_code, response |-> response]
OtherException == [type |-> "Exception", status_code |-> 0, response |-> FALSE]

NoRun == [invocations |-> 0, waits |-> <<>>, raised |-> "none"]
NoFailures == [countdown |-> 0, outcomes |-> <<>>, run |-> NoRun, met |-> FALSE,
               raised |-> "none"]

\* every error taken for a rate-limit response
code_always_rate_limit(e) == 429

\* code = ....status_code if hasattr(e, "response") and e.response else None;
\* None is 0
code(e) == IF e.response THEN e.status_code ELSE 0

\* what invocation number i of the operation does
outcome(outcomes, i) == IF i <= Len(outcomes) THEN outcomes[i] ELSE Ok

\* the for loop of sheets_call from `attempt` on, and the call after it:
\* how often func was invoked, the time.sleep calls, and what was raised
RECURSIVE sheets_call_from(_, _, _, _)
sheets_call_from(outcomes, attempt, delay, waits) ==
  IF outcome(outcomes, attempt + 1).type = "ok"
    THEN [invocations |-> attempt + 1, waits |-> waits, raised |-> "none"]
  ELSE IF /\ attempt < attempts
          /\ outcome(outcomes, attempt + 1).type = "APIError"
          /\ code(outcome(outcomes, attempt + 1)) \in RetryCodes
    THEN sheets_call_from(outcomes, attempt + 1, delay * 2, Append(waits, delay))
  ELSE [invocations |-> attempt + 1, waits |-> waits,
        raised |-> outcome(outcomes, attempt + 1).type]

\* sheets_call(func, ...) on the outcomes the remote store has in store
sheets_call(outcomes) == sheets_call_from(outcomes, 0, first_delay, <<>>)

\* remote after one more sheets_call; nothing is called while an exception
\* is propagating
called(r) ==
  IF r.raised # "none" \/ r.countdown = 0 THEN r
  ELSE IF r.countdown > 1 THEN [r EXCEPT !.countdown = @ - 1]
  ELSE [r EXCEPT !.countdown = 0, !.met = TRUE, !.raised = r.run.raised]

-----------------------------------------------------------------------------
(* The store and its helpers.  A store value st is the record of the five  *)
(* store variables; every helper returns the store it leaves behind.       *)

Store == [sheets |-> sheets, worksheets |-> worksheets,
          ws_cache |-> ws_cache, values_cache |-> values_cache, remote |-> remote]

\* the store a handler leaves: its exception ends with it
StoreIs(st) ==
  /\ sheets' = st.sheets
  /\ worksheets' = st.worksheets
  /\ ws_cache' = st.ws_cache
  /\ values_cache' = st.values_cache
  /\ remote' = [st.remote EXCEPT !.raised = "none"]

\* ws.append_row(row) through sheets_call
append_row(st, title, row) ==
  CHOOSE next \in
    {IF r.remote.raised # "none" THEN r ELSE [r EXCEPT !.sheets[title] = Append(@, row)] :
     r \in {[st EXCEPT !.remote = called(@)]}} : TRUE

\* ws.update_cell(idx, col, value) through sheets_call
update_cell(st, title, idx, col, value) ==
  CHOOSE next \in
    {IF r.remote.raised # "none" THEN r ELSE [r EXCEPT !.sheets[title][idx][col] = value] :
     r \in {[st EXCEPT !.remote = called(@)]}} : TRUE

\* _values_cache.pop((ws.title, "all"), None)
cache_pop(st, title) ==
  CHOOSE next \in
    {IF s.remote.raised # "none" THEN s ELSE [s EXCEPT !.values_cache[title] = None] :
     s \in {st}} : TRUE

\* sheets_call(spreadsheet.add_worksheet, title=title, ...), then the handle
\* is cached
add_worksheet(st, title) ==
  CHOOSE next \in
    {IF a.remote.raised # "none" THEN a
     ELSE [a EXCEPT !.worksheets = @ \cup {title}, !.ws_cache = @ \cup {title}] :
     a \in {[st EXCEPT !.remote = called(@)]}} : TRUE

\* sheets_call(spreadsheet.worksheet, title) and what _get_ws does with its
\* result: WorksheetNotFound is caught, and the worksheet created when asked
worksheet(st, title, create) ==
  CHOOSE r \in
    {IF w.remote.raised # "none" THEN [st |-> w, found |-> TRUE]
     ELSE IF title \in w.worksheets
       THEN [st |-> [w EXCEPT !.ws_cache = @ \cup {title}], found |-> TRUE]
     ELSE IF ~create THEN [st |-> w, found |-> FALSE]
     ELSE [st |-> add_worksheet(w, title), found |-> TRUE] :
     w \in {[st EXCEPT !.remote = called(@)]}} : TRUE

\* _get_ws: found = FALSE is WorksheetNotFound raised (create = False)
get_ws(st, title, create) ==
  CHOOSE r \in
    {IF s.remote.raised # "none" \/ title \in s.ws_cache THEN [st |-> s, found |-> TRUE]
     ELSE worksheet(s, title, create) : s \in {st}} : TRUE

\* vals = sheets_call(ws.get_all_values), cached unless the sheet is bindings
read_all_values(st, title) ==
  CHOOSE r \in
    {IF g.remote.raised # "none" THEN [st |-> g, vals |-> <<>>]
     ELSE IF title = "bindings" THEN [st |-> g, vals |-> g.sheets[title]]
     ELSE [st |-> [g EXCEPT !.values_cache[title] = Some(g.sheets[title])],
           vals |-> g.sheets[title]] :
     g \in {[st EXCEPT !.remote = called(@)]}} : TRUE

\* a read that treats the bindings sheet like every other sheet
get_all_values_caches_bindings(st, title) ==
  CHOOSE r \in
    {IF s.remote.raised # "none" THEN [st |-> s, vals |-> <<>>]
     ELSE IF s.values_cache[title] # None
       THEN [st |-> s, vals |-> s.values_cache[title][1]]
     ELSE [st |-> [s EXCEPT !.remote = called(@),
                            !.values_cache[title] = Some(s.sheets[title])],
           vals |-> s.sheets[title]] : s \in {st}} : TRUE

\* _get_all_values
get_all_values(st, title) ==
  CHOOSE r \in
    {IF s.remote.raised # "none" THEN [st |-> s, vals |-> <<>>]
     ELSE IF title # "bindings" /\ s.values_cache[title] # None
       THEN [st |-> s, vals |-> s.values_cache[title][1]]
     ELSE read_all_values(s, title) : s \in {st}} : TRUE

\* _get_bindings_ws
get_bindings_ws(st) ==
  LET r == get_ws(st, "bindings", FALSE) IN
  IF r.found THEN r.st
  ELSE append_row(get_ws(r.st, "bindings", TRUE).st, "bindings", BINDINGS_HEADER)

\* rows[1:] of a Python list, as the set of the 1-based indexes it keeps
Tail1(rows) == 2..Len(rows)

\* the rows of the bindings sheet that bind (guild_id, sheet_name)
BoundRows(rows, guild_id, sheet_name) ==
  {i \in Tail1(rows) :
     Len(rows[i]) >= 4 /\ rows[i][1] = Str(guild_id) /\ rows[i][4] = sheet_name}

\* a wrong column in the duplicate check: the channel id where the guild id is
is_sheet_already_bound_wrong_column(st, guild_id, sheet_name) ==
  CHOOSE b \in
    {[st |-> r.st,
      result |-> \E i \in Tail1(r.vals) :
                   /\ Len(r.vals[i]) >= 4
                   /\ r.vals[i][2] = Str(guild_id)
                   /\ r.vals[i][4] = sheet_name] :
     r \in {read_all_values(get_bindings_ws(st), "bindings")}} : TRUE

\* _is_sheet_already_bound: sheets_call(ws.get_all_values), never the cache
is_sheet_already_bound(st, guild_id, sheet_name) ==
  CHOOSE b \in
    {[st |-> r.st, result |-> BoundRows(r.vals, guild_id, sheet_name) # {}] :
     r \in {read_all_values(get_bindings_ws(st), "bindings")}} : TRUE

Min(S) == CHOOSE x \in S : \A y \in S : x <= y

\* the dict _get_binding_record makes of a row
binding_record(row) ==
  [guild_id |-> ToInt(row[1]), channel_id |-> ToInt(row[2]),
   message_id |-> ToInt(row[3]), sheet_name |-> row[4],
   created_at |-> IF Len(row) > 4 THEN row[5] ELSE ""]

\* _get_binding_record: sheets_call(ws.get_all_values), never the cache
get_binding_record(st, guild_id, sheet_name) ==
  CHOOSE g \in
    {[st |-> r.st,
      rec |-> IF BoundRows(r.vals, guild_id, sheet_name) = {} THEN None
              ELSE Some(binding_record(
                          r.vals[Min(BoundRows(r.vals, guild_id, sheet_name))]))] :
     r \in {read_all_values(get_bindings_ws(st), "bindings")}} : TRUE

\* _add_binding
add_binding(st, guild_id, channel_id, message_id, sheet_name, now) ==
  LET st1 == get_bindings_ws(st) IN
  cache_pop(append_row(st1, "bindings",
              <<Str(guild_id), Str(channel_id), Str(message_id), sheet_name, Str(now)>>),
            "bindings")

\* _sheet_from_button_number
sheet_from_button_number(n) == WALLET_SHEET_MAP[n]

-----------------------------------------------------------------------------
(* Wallet sheets.  A row is <<user name, user id, wallet>>; names and        *)
(* wallets are texts (sequences of characters), ids are str(int).           *)

\* str.strip()
RECURSIVE lstrip(_)
lstrip(s) == IF s # <<>> /\ Head(s) = " " THEN lstrip(Tail(s)) ELSE s
RECURSIVE rstrip(_)
rstrip(s) == IF s # <<>> /\ s[Len(s)] = " " THEN rstrip(SubSeq(s, 1, Len(s) - 1)) ELSE s
strip(s) == rstrip(lstrip(s))

\* truth value of an Optional[str]: None and "" are false
Truthy(o) == o # None /\ o[1] # <<>>

\* a or b, for a an Optional[str] and b a str
Or(a, b) == IF Truthy(a) THEN a[1] ELSE b

\* the indexes (1-based, as enumerate(values, start=1)) of the rows of user_id
RowsOf(values, user_id) ==
  {i \in 1..Len(values) : Len(values[i]) >= 2 /\ values[i][2] = user_id}

\* a search that skips the first row, as the readers of the bindings sheet do
find_row_by_id_skips_first_row(st, title, user_id) ==
  LET r == get_all_values(cache_pop(st, title), title)
      hit == RowsOf(r.vals, user_id) \ {1}
  IN [st |-> r.st,
      idx |-> IF hit = {} THEN 0 ELSE Min(hit),
      row |-> IF hit = {} THEN None ELSE Some(r.vals[Min(hit)])]

\* _find_row_by_id; idx = 0 is (None, None)
find_row_by_id(st, title, user_id) ==
  CHOOSE f \in
    {LET hit == RowsOf(r.vals, user_id)
     IN [st |-> r.st,
         idx |-> IF hit = {} THEN 0 ELSE Min(hit),
         row |-> IF hit = {} THEN None ELSE Some(r.vals[Min(hit)])] :
     r \in {get_all_values(cache_pop(st, title), title)}} : TRUE

\* _lookup_wallet_in_sheet
lookup_wallet_in_sheet(st, title, user_id) ==
  CHOOSE found \in
    {IF f.idx # 0 /\ Len(f.row[1]) >= 3
       THEN [st |-> f.st, name |-> Some(f.row[1][1]), wallet |-> Some(f.row[1][3])]
       ELSE [st |-> f.st, name |-> None, wallet |-> None] :
     f \in {find_row_by_id(st, title, user_id)}} : TRUE

\* the three update_cell calls of an upsert or a change
update_row(st, title, idx, user_name, user_id, wallet) ==
  update_cell(update_cell(update_cell(st, title, idx, 1, user_name),
                          title, idx, 2, user_id),
              title, idx, 3, wallet)

\* an upsert that never looks for the row and always appends
upsert_wallet_always_appends(st, title, user_name, user_id, wallet) ==
  LET f == find_row_by_id(st, title, user_id) IN
  cache_pop(append_row(f.st, title, <<user_name, user_id, wallet>>), title)

\* _upsert_wallet
upsert_wallet(st, title, user_name, user_id, wallet) ==
  CHOOSE next \in
    {cache_pop(IF f.idx # 0
                 THEN update_row(f.st, title, f.idx, user_name, user_id, wallet)
                 ELSE append_row(f.st, title, <<user_name, user_id, wallet>>),
               title) :
     f \in {find_row_by_id(st, title, user_id)}} : TRUE

\* get_master_wallet
get_master_wallet(st, user_id) ==
  lookup_wallet_in_sheet(get_ws(st, MASTER_SHEET, TRUE).st, MASTER_SHEET, user_id)

\* set_master_wallet
set_master_wallet(st, user_name, user_id, wallet) ==
  upsert_wallet(get_ws(st, MASTER_SHEET, TRUE).st, MASTER_SHEET, user_name, user_id, wallet)

\* enroll_in_sheet_only
enroll_in_sheet_only(st, sheet_name, user_name, user_id, wallet) ==
  upsert_wallet(get_ws(st, sheet_name, TRUE).st, sheet_name, user_name, user_id, wallet)

\* a loop body that upserts instead of updating only where a row exists
update_existing_sheet_upserts(st, s, user_name, user_id, wallet) ==
  upsert_wallet(get_ws(st, s, TRUE).st, s, user_name, user_id, wallet)

\* one iteration of update_existing_sheets, for sheet s
update_existing_sheet(st, s, user_name, user_id, wallet) ==
  CHOOSE next \in
    {IF f.idx # 0
       THEN cache_pop(update_row(f.st, s, f.idx, user_name, user_id, wallet), s)
       ELSE f.st :
     f \in {find_row_by_id(get_ws(st, s, TRUE).st, s, user_id)}} : TRUE

\* update_existing_sheets: the loop over ALL_WALLET_SHEETS[k..]
RECURSIVE update_existing_sheets_from(_, _, _, _, _)
update_existing_sheets_from(st, k, user_name, user_id, wallet) ==
  IF k > Len(ALL_WALLET_SHEETS) THEN st
  ELSE update_existing_sheets_from(
         update_existing_sheet(st, ALL_WALLET_SHEETS[k], user_name, user_id, wallet),
         k + 1, user_name, user_id, wallet)

update_existing_sheets(st, user_name, user_id, wallet) ==
  update_existing_sheets_from(st, 1, user_name, user_id, wallet)

\* the dict _list_bindings_for_guild makes of a row
binding_of(row) ==
  [guild_id |-> ToInt(row[1]), channel_id |-> ToInt(row[2]),
   message_id |-> ToInt(row[3]), sheet_name |-> row[4], created_at |-> row[5]]

\* the rows [1:] of guild_id with five cells, as dicts, in sheet order
listed(vals, guild_id) ==
  CHOOSE out \in
    {[i \in 1..Len(kept) |-> binding_of(kept[i])] :
     kept \in {SelectSeq(SubSeq(vals, 2, Len(vals)),
                         LAMBDA row : Len(row) >= 5 /\ row[1] = Str(guild_id))}} : TRUE

\* _list_bindings_for_guild
list_bindings_for_guild(st, guild_id) ==
  CHOOSE l \in
    {[st |-> r.st, out |-> listed(r.vals, guild_id)] :
     r \in {get_all_values(get_bindings_ws(st), "bindings")}} : TRUE

\* _get_binding_by_message, the sheet name of the result; None when no row matches
get_binding_by_message(st, message_id) ==
  LET r == get_all_values(get_bindings_ws(st), "bindings")
      hit == {i \in Tail1(r.vals) :
                Len(r.vals[i]) >= 3 /\ r.vals[i][3] = Str(message_id)}
  IN [st |-> r.st,
      sheet |-> IF hit = {} THEN None ELSE Some(r.vals[Min(hit)][4])]

-----------------------------------------------------------------------------
(* Wallet hub handlers: what a handler does to the store, the reply it      *)
(* sends and the dialog it opens.                                           *)

AUTO_ENROLL_FROM_MASTER_ON_ANY_BUTTON == TRUE

\* ConfirmChangeView(sheet_name, current_wallet, user_name); current_wallet is
\* only the placeholder text of the modal
ConfirmChangeView(user, sheet_name, user_name) ==
  [kind |-> "view", user |-> user, sheet_name |-> sheet_name, is_change |-> TRUE,
   user_name |-> user_name]

\* RegisterOrChangeWalletModal(sheet_name, preset_wallet, is_change, user_name)
RegisterOrChangeWalletModal(user, sheet_name, is_change, user_name) ==
  [kind |-> "modal", user |-> user, sheet_name |-> sheet_name, is_change |-> is_change,
   user_name |-> user_name]

\* WalletHubView._maybe_auto_enroll_from_master
maybe_auto_enroll_from_master(st, sheet, user_name, user_id) ==
  LET m == get_master_wallet(st, user_id) IN
  IF ~Truthy(m.wallet)
    THEN [st |-> m.st, enrolled |-> FALSE, name |-> None, wallet |-> None]
  ELSE IF ~AUTO_ENROLL_FROM_MASTER_ON_ANY_BUTTON
    THEN [st |-> m.st, enrolled |-> FALSE, name |-> m.name, wallet |-> m.wallet]
  ELSE [st |-> enroll_in_sheet_only(m.st, sheet, Or(m.name, user_name), user_id,
                                    m.wallet[1]),
        enrolled |-> TRUE, name |-> Some(Or(m.name, user_name)), wallet |-> m.wallet]

\* WalletHubView.btn_register
btn_register(st, message_id, user_name, user) ==
  LET b == get_binding_by_message(st, message_id)
      user_id == Str(user)
  IN IF b.sheet = None THEN [st |-> b.st, reply |-> "error", open |-> None]
     ELSE
       LET sheet == b.sheet[1]
           s == lookup_wallet_in_sheet(get_ws(b.st, sheet, TRUE).st, sheet, user_id)
           m == get_master_wallet(s.st, user_id)
       IN IF Truthy(s.wallet) THEN [st |-> s.st, reply |-> "already", open |-> None]
          ELSE IF Truthy(m.wallet)
            THEN [st |-> enroll_in_sheet_only(m.st, sheet, Or(m.name, user_name),
                                              user_id, m.wallet[1]),
                  reply |-> "synced", open |-> None]
          ELSE [st |-> m.st, reply |-> "modal",
                open |-> Some(RegisterOrChangeWalletModal(user, sheet, FALSE, user_name))]

\* WalletHubView.btn_check
btn_check(st, message_id, user_name, user) ==
  LET b == get_binding_by_message(st, message_id)
      user_id == Str(user)
  IN IF b.sheet = None THEN [st |-> b.st, reply |-> "error", open |-> None]
     ELSE
       LET sheet == b.sheet[1]
           s == lookup_wallet_in_sheet(get_ws(b.st, sheet, TRUE).st, sheet, user_id)
           a == maybe_auto_enroll_from_master(s.st, sheet, user_name, user_id)
           m == get_master_wallet(a.st, user_id)
       IN IF Truthy(s.wallet) THEN [st |-> s.st, reply |-> "shown", open |-> None]
          ELSE IF a.enrolled THEN [st |-> a.st, reply |-> "enrolled", open |-> None]
          ELSE [st |-> m.st,
                reply |-> IF Truthy(m.wallet) THEN "not_here" ELSE "no_wallet",
                open |-> None]

\* WalletHubView.btn_change
btn_change(st, message_id, user_name, user) ==
  LET b == get_binding_by_message(st, message_id)
      user_id == Str(user)
  IN IF b.sheet = None THEN [st |-> b.st, reply |-> "error", open |-> None]
     ELSE
       LET sheet == b.sheet[1]
           s == lookup_wallet_in_sheet(get_ws(b.st, sheet, TRUE).st, sheet, user_id)
           a == maybe_auto_enroll_from_master(s.st, sheet, user_name, user_id)
           tried == ~Truthy(s.wallet)
           st1 == IF tried THEN a.st ELSE s.st
           s_name == IF tried /\ a.enrolled THEN a.name ELSE s.name
           s_wallet == IF tried /\ a.enrolled THEN a.wallet ELSE s.wallet
           m == get_master_wallet(st1, user_id)
       IN IF ~Truthy(s_wallet)
            THEN [st |-> m.st,
                  reply |-> IF Truthy(m.wallet) THEN "not_here" ELSE "no_wallet",
                  open |-> None]
          ELSE [st |-> st1, reply |-> "confirm",
                open |-> Some(ConfirmChangeView(user, sheet, Or(s_name, user_name)))]

\* RegisterOrChangeWalletModal.on_submit; value is wallet_input.value and
\* current_name is str(interaction.user)
on_submit(st, modal, value, current_name) ==
  LET user_name == Or(Some(modal.user_name), current_name)
      user_id == Str(modal.user)
      new_wallet == strip(value)
  IN IF modal.is_change
       THEN [st |-> update_existing_sheets(
                      set_master_wallet(st, user_name, user_id, new_wallet),
                      user_name, user_id, new_wallet),
             reply |-> "changed"]
       ELSE [st |-> set_master_wallet(
                      enroll_in_sheet_only(st, modal.sheet_name, user_name, user_id,
                                           new_wallet),
                      user_name, user_id, new_wallet),
             reply |-> "registered"]

-----------------------------------------------------------------------------
(* Wallet hub interactions *)

\* the open dialogs are a sequence, oldest first
DialogSlots == 1..MaxDialogs
Room == Len(dialogs) < MaxDialogs

\* hub messages whose buttons can be pressed: the last one has no binding row
HubMessages == BoundHubs \cup {Cardinality(BoundHubs) + 1}

\* the dialogs after a handler opened `open` (None: none)
Opened(open) == IF open = None THEN dialogs ELSE Append(dialogs, open[1])

\* the dialogs after dialog d closed
Closed(d) == SubSeq(dialogs, 1, d - 1) \o SubSeq(dialogs, d + 1, Len(dialogs))

\* except Exception as e: await send_friendly_error(interaction, e)
\* the reply of a handler whose body left the result h
friendly_error(h) ==
  IF h.st.remote.raised # "none" THEN [reply |-> "error", open |-> None]
  ELSE [reply |-> h.reply, open |-> h.open]

\* a button handler h ran as the interaction `op`
Handled(op, h) ==
  /\ steps < MaxSteps
  /\ h.open # None => Room
  /\ StoreIs(h.st)
  /\ dialogs' = Opened(friendly_error(h).open)
  /\ last' = [op |-> op, reply |-> friendly_error(h).reply]
  /\ steps' = steps + 1
  /\ UNCHANGED <<bindVars, listReq, upsertCall, fetch>>

PressRegister(m, u, n) == Handled("register", btn_register(Store, m, n, u))

PressCheck(m, u, n) == Handled("check", btn_check(Store, m, n, u))

PressChange(m, u, n) == Handled("change", btn_change(Store, m, n, u))

\* ConfirmChangeView.confirm: the change modal opens
PressConfirm(d) ==
  /\ steps < MaxSteps
  /\ d <= Len(dialogs)
  /\ dialogs[d].kind = "view"
  /\ Room
  /\ dialogs' = Opened(Some(RegisterOrChangeWalletModal(
                     dialogs[d].user, dialogs[d].sheet_name, TRUE, dialogs[d].user_name)))
  /\ last' = [op |-> "confirm", reply |-> "modal"]
  /\ steps' = steps + 1
  /\ UNCHANGED <<storeVars, bindVars, listReq, upsertCall, fetch>>

\* the user submits the modal in slot d
Submit(d, value, n) ==
  /\ steps < MaxSteps
  /\ d <= Len(dialogs)
  /\ dialogs[d].kind = "modal"
  /\ n \in NamesOf(dialogs[d].user)
  /\ \E h \in {on_submit(Store, dialogs[d], value, n)} :
       /\ StoreIs(h.st)
       /\ last' = [op |-> "submit",
                   reply |-> IF h.st.remote.raised # "none" THEN "error" ELSE h.reply]
  /\ dialogs' = Closed(d)
  /\ steps' = steps + 1
  /\ UNCHANGED <<bindVars, listReq, upsertCall, fetch>>

\* the user closes the modal, or the view times out
Dismiss(d) ==
  /\ d <= Len(dialogs)
  /\ dialogs' = Closed(d)
  /\ last' = [op |-> "dismiss", reply |-> "none"]
  /\ UNCHANGED <<storeVars, bindVars, steps, listReq, upsertCall, fetch>>

NoFetch == [pc |-> "idle", actor |-> <<>>, contract_address |-> "", page |-> 0,
            error_count |-> 0, all_holders |-> <<>>, csv |-> <<>>,
            total_holders |-> 0, total_supply |-> <<0, 0>>, sent |-> <<>>]

NoCall == [title |-> "", user_name |-> <<>>, user_id |-> "", wallet |-> <<>>, n |-> 0]

\* no /check_sheet_binding is in flight
NoList == [pc |-> "idle", guild_id |-> 0]

InitWalletIdle ==
  /\ dialogs = <<>>
  /\ last = [op |-> "none", reply |-> "none"]
  /\ steps = 0
  /\ listReq = NoList
  /\ upsertCall = NoCall
  /\ fetch = NoFetch


-----------------------------------------------------------------------------
(* /register_wallet (WalletHub.register_wallet)                            *)

BindSlots == 1..MaxBindReqs

IdleReq == [pc |-> "idle", guild_id |-> 0, channel |-> 0, button_number |-> 0,
            edit_if_exists |-> FALSE, rec |-> None, msg |-> 0, sending |-> "none",
            reply |-> "none"]

\* the branch register_wallet takes after the duplicate check
register_wallet_branch(exists, edit_if_exists) ==
  IF exists /\ ~edit_if_exists THEN "duplicate"
  ELSE IF exists /\ edit_if_exists THEN "refresh"
  ELSE "new"

\* the command arrives; await interaction.response.defer
BindStart(r, g, ch, b, e) ==
  /\ bindReq[r].pc = "idle"
  /\ \A q \in 1..(r - 1) : bindReq[q].pc # "idle"
  /\ bindReq' = [bindReq EXCEPT ![r] =
       [IdleReq EXCEPT !.pc = "deferred", !.guild_id = g, !.channel = ch,
                       !.button_number = b, !.edit_if_exists = e]]
  /\ UNCHANGED <<storeVars, hubMessages, clock, walletVars, upsertCall, fetch>>

\* the handler returns with the reply the user has, "error" for the friendly
\* error of its except Exception; its locals are gone
Returned(r, reply) ==
  [bindReq EXCEPT ![r].pc = "done", ![r].reply = reply, ![r].sending = "none",
                  ![r].rec = None, ![r].msg = 0]

\* the handler reaches await interaction.followup.send(content) with its answer
Sending(r, content) == [bindReq EXCEPT ![r].pc = "replying", ![r].sending = content]

\* from the duplicate check to the next await
BindCheck(r) ==
  /\ bindReq[r].pc = "deferred"
  /\ \E chk \in {is_sheet_already_bound(
                   Store, bindReq[r].guild_id,
                   sheet_from_button_number(bindReq[r].button_number))} :
       IF chk.st.remote.raised # "none"
         THEN StoreIs(chk.st) /\ bindReq' = Returned(r, "error")
       ELSE IF register_wallet_branch(chk.result, bindReq[r].edit_if_exists) = "duplicate"
         THEN /\ StoreIs(chk.st)
              /\ bindReq' = Sending(r, "duplicate")
       ELSE IF register_wallet_branch(chk.result, bindReq[r].edit_if_exists) = "refresh"
         THEN \E got \in {get_binding_record(
                            chk.st, bindReq[r].guild_id,
                            sheet_from_button_number(bindReq[r].button_number))} :
                /\ StoreIs(got.st)
                /\ bindReq' =
                     IF got.st.remote.raised # "none" THEN Returned(r, "error")
                     ELSE IF got.rec = None THEN Sending(r, "not_found")
                     ELSE [bindReq EXCEPT
                             ![r].pc = IF bindReq[r].channel = got.rec[1].channel_id
                                         THEN "fetch_message" ELSE "fetch_channel",
                             ![r].rec = got.rec]
       ELSE \E st \in {get_ws(chk.st,
                              sheet_from_button_number(bindReq[r].button_number),
                              TRUE).st} :
              /\ StoreIs(st)
              /\ bindReq' = IF st.remote.raised # "none" THEN Returned(r, "error")
                            ELSE [bindReq EXCEPT ![r].pc = "posting"]
  /\ UNCHANGED <<hubMessages, clock, walletVars, upsertCall, fetch>>

\* the command came with another channel than the bound one: Discord answers
\* await bot.fetch_channel(rec["channel_id"]); ok = FALSE is Discord raising
BindFetchChannel(r, ok) ==
  /\ bindReq[r].pc = "fetch_channel"
  /\ bindReq' = IF ok THEN [bindReq EXCEPT ![r].pc = "fetch_message"]
                ELSE Returned(r, "error")
  /\ UNCHANGED <<storeVars, hubMessages, clock, walletVars, upsertCall, fetch>>

\* Discord answers await target_ch.fetch_message(rec["message_id"]);
\* ok = FALSE is Discord raising, as it does when the message is not there.
\* The handler goes on to await target_msg.edit(view=WalletHubView())
BindFetchMessage(r, ok) ==
  /\ bindReq[r].pc = "fetch_message"
  /\ LET rec == bindReq[r].rec[1]
         there == /\ rec.message_id \in 1..Len(hubMessages)
                  /\ hubMessages[rec.message_id].channel = rec.channel_id
     IN bindReq' = IF ok /\ there THEN [bindReq EXCEPT ![r].pc = "editing"]
                   ELSE Returned(r, "error")
  /\ UNCHANGED <<storeVars, hubMessages, clock, walletVars, upsertCall, fetch>>

\* Discord answers await target_msg.edit(view=WalletHubView()): the buttons of
\* the hub message are attached again, or the edit raises. After the edit the
\* handler goes on to await interaction.followup.send("Refreshed buttons ...")
BindEdit(r, ok) ==
  /\ bindReq[r].pc = "editing"
  /\ IF ok
     THEN /\ hubMessages' = [hubMessages EXCEPT ![bindReq[r].rec[1].message_id].edits = @ + 1]
          /\ bindReq' = Sending(r, "refreshed")
     ELSE /\ hubMessages' = hubMessages
          /\ bindReq' = Returned(r, "error")
  /\ UNCHANGED <<storeVars, clock, walletVars, upsertCall, fetch>>

\* Discord answers await interaction.followup.send(content): the user has the
\* reply, or the send raises and the handler sends the friendly error
BindReply(r, ok) ==
  /\ bindReq[r].pc = "replying"
  /\ bindReq' = IF ok THEN Returned(r, bindReq[r].sending) ELSE Returned(r, "error")
  /\ UNCHANGED <<storeVars, hubMessages, clock, walletVars, upsertCall, fetch>>

\* await channel.send(embed, view): the hub message appears in the channel;
\* ok = FALSE is Discord raising
BindPost(r, ok) ==
  /\ bindReq[r].pc = "posting"
  /\ IF ok
     THEN /\ hubMessages' = Append(hubMessages, [channel |-> bindReq[r].channel, edits |-> 0])
          /\ bindReq' = [bindReq EXCEPT ![r].pc = "posted", ![r].msg = Len(hubMessages) + 1]
     ELSE /\ hubMessages' = hubMessages
          /\ bindReq' = Returned(r, "error")
  /\ UNCHANGED <<storeVars, clock, walletVars, upsertCall, fetch>>

\* the handler resumes after channel.send: _add_binding, then it awaits the
\* followup.send of the reply
BindAppend(r) ==
  /\ bindReq[r].pc = "posted"
  /\ \E st \in {add_binding(Store, bindReq[r].guild_id, bindReq[r].channel,
                              bindReq[r].msg,
                              sheet_from_button_number(bindReq[r].button_number),
                              clock)} :
       /\ StoreIs(st)
       /\ bindReq' = IF st.remote.raised # "none" THEN Returned(r, "error")
                     ELSE Sending(r, "posted")
  /\ clock' = clock + 1
  /\ UNCHANGED <<hubMessages, walletVars, upsertCall, fetch>>

InitStore ==
  /\ sheets = [t \in Titles |-> <<>>]
  /\ worksheets = {LOG_SHEET}
  /\ ws_cache = {}
  /\ values_cache = [t \in Titles |-> None]
  /\ remote = NoFailures

InitBind ==
  /\ InitStore
  /\ hubMessages = <<>>
  /\ clock = 0
  /\ bindReq = [r \in BindSlots |-> IdleReq]
  /\ InitWalletIdle

NextBind ==
  \/ \E r \in BindSlots, p \in BindPairs, ch \in Channels, e \in BOOLEAN :
       BindStart(r, p[1], ch, p[2], e)
  \/ \E r \in BindSlots : BindCheck(r)
  \/ \E r \in BindSlots, ok \in BOOLEAN : BindFetchChannel(r, ok)
  \/ \E r \in BindSlots, ok \in BOOLEAN : BindFetchMessage(r, ok)
  \/ \E r \in BindSlots, ok \in BOOLEAN : BindEdit(r, ok)
  \/ \E r \in BindSlots, ok \in BOOLEAN : BindReply(r, ok)
  \/ \E r \in BindSlots, ok \in BOOLEAN : BindPost(r, ok)
  \/ \E r \in BindSlots : BindAppend(r)

SpecBind == InitBind /\ [][NextBind]_vars

-----------------------------------------------------------------------------
(* The wallet hub in use *)

\* the hubs of BoundHubs have been posted and bound in guild 1, channel 11; one
\* more hub message is posted and has no binding row
InitWallet ==
  /\ sheets = [t \in Titles |->
       IF t = "bindings"
         THEN <<BINDINGS_HEADER>> \o
              [i \in BoundHubs |-> <<Str(1), Str(11), Str(i), WALLET_SHEET_MAP[i], Str(i - 1)>>]
         ELSE <<>>]
  /\ worksheets = {LOG_SHEET, BINDINGS_SHEET} \cup {WALLET_SHEET_MAP[i] : i \in BoundHubs}
  /\ ws_cache = {BINDINGS_SHEET} \cup {WALLET_SHEET_MAP[i] : i \in BoundHubs}
  /\ values_cache = [t \in Titles |-> None]
  /\ remote = NoFailures
  /\ hubMessages = [i \in HubMessages |-> [channel |-> 11, edits |-> 0]]
  /\ clock = Cardinality(BoundHubs)
  /\ bindReq = [r \in BindSlots |-> IdleReq]
  /\ InitWalletIdle

NextWallet ==
  \/ \E m \in HubMessages, u \in Users : \E n \in NamesOf(u) : PressRegister(m, u, n)
  \/ \E m \in HubMessages, u \in Users : \E n \in NamesOf(u) : PressCheck(m, u, n)
  \/ \E m \in HubMessages, u \in Users : \E n \in NamesOf(u) : PressChange(m, u, n)
  \/ \E d \in DialogSlots : PressConfirm(d)
  \/ \E d \in DialogSlots, value \in WalletInputs, n \in Names : Submit(d, value, n)
  \/ \E d \in DialogSlots : Dismiss(d)

SpecWallet == InitWallet /\ [][NextWallet]_vars

-----------------------------------------------------------------------------
(* The wallet hub against a store that fails.  One sheets_call, the one     *)
(* remote.countdown counts down to, meets the outcomes of remote.outcomes.  *)

\* how many wallet interactions a run has
MaxStoreSteps == 2
\* the latest sheets_call that can be the failing one
MaxCountdown == 6
\* the longest run of rate-limit or transient-server responses
MaxTransient == 5

\* errors with a rate-limit or transient-server status; the last one carries a
\* response object that is false, and sheets_call reads no code from it
RetryStatusErrors == {APIError(429, TRUE), APIError(503, TRUE), APIError(429, FALSE)}
\* errors that are neither
FatalErrors == {APIError(403, TRUE), OtherException}

\* k times the outcome o
Repeated(o, k) == [i \in 1..k |-> o]

\* what the failing call meets: a run of one transient error, then success or
\* one fatal error
ScheduledOutcomes ==
  {Repeated(t, k) \o tail :
     t \in RetryStatusErrors, k \in 0..MaxTransient,
     tail \in {<<>>} \cup {<<e>> : e \in FatalErrors}}

\* the text the user submits
StoreInput == <<" ", "B">>

\* the store of InitWallet, or that store after user 1 registered "A" as "x"
\* through hub 1
InitStoreFail ==
  /\ \E registered \in BOOLEAN :
       /\ sheets = [t \in Titles |->
            IF t = "bindings"
              THEN <<BINDINGS_HEADER>> \o
                   [i \in BoundHubs |->
                      <<Str(1), Str(11), Str(i), WALLET_SHEET_MAP[i], Str(i - 1)>>]
            ELSE IF registered /\ t \in {MASTER_SHEET, "wallet_log"}
              THEN <<<< <<"x">>, Str(1), <<"A">> >>>>
            ELSE <<>>]
       /\ worksheets = {LOG_SHEET, BINDINGS_SHEET}
                         \cup {WALLET_SHEET_MAP[i] : i \in BoundHubs}
                         \cup (IF registered THEN {MASTER_SHEET} ELSE {})
       /\ ws_cache = {BINDINGS_SHEET} \cup {WALLET_SHEET_MAP[i] : i \in BoundHubs}
                       \cup (IF registered THEN {MASTER_SHEET} ELSE {})
  /\ values_cache = [t \in Titles |-> None]
  /\ \E countdown \in 1..MaxCountdown, outcomes \in ScheduledOutcomes :
       remote = [countdown |-> countdown, outcomes |-> outcomes,
                 run |-> sheets_call(outcomes), met |-> FALSE, raised |-> "none"]
  /\ hubMessages = [i \in HubMessages |-> [channel |-> 11, edits |-> 0]]
  /\ clock = Cardinality(BoundHubs)
  /\ bindReq = [r \in BindSlots |-> IdleReq]
  /\ InitWalletIdle

\* a handler body that left h, inside the handler's try ... except Exception
Attempted(op, h) ==
  /\ steps < MaxStoreSteps
  /\ StoreIs(h.st)
  /\ last' = [op |-> op, reply |-> friendly_error(h).reply]
  /\ steps' = steps + 1
  /\ UNCHANGED <<bindVars, dialogs, listReq, upsertCall, fetch>>

\* user 1 submits a modal of hub 1 (RegisterOrChangeWalletModal.on_submit)
StoreSubmit(is_change, n) ==
  \E h \in {on_submit(Store, RegisterOrChangeWalletModal(1, "wallet_log", is_change, n),
                      StoreInput, n)} :
    Attempted("submit", [st |-> h.st, reply |-> h.reply, open |-> None])

\* user 1 presses "check" on hub 1 (WalletHubView.btn_check)
StoreCheck(n) ==
  \E h \in {btn_check(Store, 1, n, 1)} : Attempted("check", h)

NextStoreFail ==
  \/ \E is_change \in BOOLEAN, n \in NamesOf(1) : StoreSubmit(is_change, n)
  \/ \E n \in NamesOf(1) : StoreCheck(n)

SpecStoreFail == InitStoreFail /\ [][NextStoreFail]_vars

-----------------------------------------------------------------------------
(* The readers of the bindings sheet while rows are added to it by hand.    *)
(* One /register_wallet request, "check" presses of user 1 and              *)
(* /check_sheet_binding run against the store of InitWallet; an             *)
(* administrator edits the spreadsheet directly.                            *)

\* how many rows are added by hand
MaxOutOfBand == 1

\* a row is added to the bindings sheet in the spreadsheet itself: hub message
\* message_id of channel 11 is bound in guild guild_id
OutOfBandBinding(guild_id, message_id, b) ==
  /\ Len(sheets["bindings"]) < 1 + Cardinality(BoundHubs) + MaxOutOfBand
  /\ \A i \in Tail1(sheets["bindings"]) : sheets["bindings"][i][3] # Str(message_id)
  /\ sheets' = [sheets EXCEPT !["bindings"] =
       Append(@, <<Str(guild_id), Str(11), Str(message_id), WALLET_SHEET_MAP[b], Str(clock)>>)]
  /\ clock' = clock + 1
  /\ UNCHANGED <<worksheets, ws_cache, values_cache, remote, hubMessages, bindReq,
                 walletVars, upsertCall, fetch>>

\* user 1 presses "check" on hub message message_id (WalletHubView.btn_check)
ResolveCheck(message_id, n) ==
  /\ steps < MaxStoreSteps
  /\ \E h \in {btn_check(Store, message_id, n, 1)} :
       /\ StoreIs(h.st)
       /\ last' = [op |-> "check", reply |-> friendly_error(h).reply,
                   message_id |-> message_id]
  /\ steps' = steps + 1
  /\ UNCHANGED <<bindVars, dialogs, listReq, upsertCall, fetch>>

\* /check_sheet_binding is invoked in guild guild_id: the handler awaits
\* interaction.response.defer
ListStart(guild_id) ==
  /\ steps < MaxStoreSteps
  /\ listReq.pc = "idle"
  /\ listReq' = [pc |-> "defer", guild_id |-> guild_id]
  /\ steps' = steps + 1
  /\ UNCHANGED <<storeVars, bindVars, dialogs, last, upsertCall, fetch>>

\* Discord answers the defer of AdminDiagnostics.check_sheet_binding and the
\* handler reads the bindings of its guild and replies; ok = FALSE is Discord
\* raising: the await is outside the try, the exception leaves the handler
\* and nothing is read or sent
ListBindings(ok) ==
  /\ listReq.pc = "defer"
  /\ listReq' = NoList
  /\ IF ok
       THEN \E l \in {list_bindings_for_guild(Store, listReq.guild_id)} :
              /\ StoreIs(l.st)
              /\ last' = [op |-> "list",
                          reply |-> IF l.st.remote.raised # "none" THEN "error"
                                    ELSE IF l.out = <<>> THEN "no_bindings"
                                    ELSE "listed",
                          guild_id |-> listReq.guild_id,
                          bindings |-> l.out]
     ELSE /\ last' = [op |-> "list", reply |-> "none",
                      guild_id |-> listReq.guild_id, bindings |-> <<>>]
          /\ UNCHANGED storeVars
  /\ UNCHANGED <<bindVars, dialogs, steps, upsertCall, fetch>>

NextBindingReads ==
  \/ \E g \in Guilds, b \in Buttons :
       OutOfBandBinding(g, Cardinality(BoundHubs) + 1, b)
  \/ \E message_id \in HubMessages, n \in NamesOf(1) : ResolveCheck(message_id, n)
  \/ \E g \in Guilds : ListStart(g)
  \/ \E ok \in BOOLEAN : ListBindings(ok)
  \/ \E g \in Guilds, b \in Buttons, e \in BOOLEAN : BindStart(1, g, 11, b, e)
  \/ BindCheck(1)
  \/ \E ok \in BOOLEAN : BindFetchMessage(1, ok)
  \/ \E ok \in BOOLEAN : BindEdit(1, ok)
  \/ \E ok \in BOOLEAN : BindReply(1, ok)
  \/ \E ok \in BOOLEAN : BindPost(1, ok)
  \/ BindAppend(1)

SpecBindingReads == InitWallet /\ [][NextBindingReads]_vars

-----------------------------------------------------------------------------
(* _upsert_wallet called twice with the same arguments *)

\* the texts a wallet cell holds
WalletTexts == {strip(v) : v \in WalletInputs}
RowNames == {<<"x">>, <<"y">>}

\* the contents of a wallet sheet: up to MaxRows rows, one row per user id
WalletRows == {<<n, Str(u), w>> : n \in RowNames, u \in 1..NumIds, w \in WalletTexts}
SheetContents ==
  UNION {{q \in [1..k -> WalletRows] :
            \A i, j \in 1..k : i # j => q[i][2] # q[j][2]} : k \in 0..MaxRows}

InitUpsert ==
  /\ \E t \in {MASTER_SHEET, "wallet_log"}, q \in SheetContents,
        n \in RowNames, u \in 1..NumIds, w \in WalletTexts :
       /\ sheets = [x \in Titles |-> IF x = t THEN q ELSE <<>>]
       /\ upsertCall = [title |-> t, user_name |-> n, user_id |-> Str(u),
                        wallet |-> w, n |-> 0]
  /\ worksheets = Titles
  /\ ws_cache = Titles
  /\ values_cache = [t \in Titles |-> None]
  /\ remote = NoFailures
  /\ hubMessages = <<>>
  /\ clock = 0
  /\ bindReq = [r \in BindSlots |-> IdleReq]
  /\ dialogs = <<>>
  /\ listReq = NoList
  /\ last = [op |-> "none", reply |-> "none"]
  /\ steps = 0
  /\ fetch = NoFetch

\* _upsert_wallet(ws, user_name, user_id, wallet), at most twice
UpsertCall ==
  /\ upsertCall.n < 2
  /\ StoreIs(upsert_wallet(Store, upsertCall.title, upsertCall.user_name,
                           upsertCall.user_id, upsertCall.wallet))
  /\ upsertCall' = [upsertCall EXCEPT !.n = @ + 1]
  /\ UNCHANGED <<bindVars, walletVars, fetch>>

NextUpsert == UpsertCall

SpecUpsert == InitUpsert /\ [][NextUpsert]_vars

-----------------------------------------------------------------------------
(* /snapshot: the paginated fetch loop and what follows it *)

\* offset, max_consecutive_errors and max_holders of SnapshotCog.snapshot
offset == 100
max_consecutive_errors == 5
max_holders == 1000

\* A float is held as <<a, b>>, the number a * 2^53 + b / FloatUnit, with
\* 0 <= b far below 2^53: from 2^53 on a float cannot hold every integer, and
\* the quantity texts drawn below are small decimals with a binary fraction,
\* exact in a float, or integers just above 2^53, which are not.
FloatUnit == 4

DigitValue(c) == CHOOSE d \in 0..9 : Digit(d) = c
\* the number written by the first k digits of cs
RECURSIVE digits_upto(_, _)
digits_upto(cs, k) ==
  IF k = 0 THEN 0 ELSE digits_upto(cs, k - 1) * 10 + DigitValue(cs[k])
digits_value(cs) == digits_upto(cs, Len(cs))
RECURSIVE pow10(_)
pow10(k) == IF k = 0 THEN 1 ELSE 10 * pow10(k - 1)
RECURSIVE pow2(_)
pow2(k) == IF k = 0 THEN 1 ELSE 2 * pow2(k - 1)
RECURSIVE floor_log2(_)
floor_log2(n) == IF n < 2 THEN 0 ELSE 1 + floor_log2(n \div 2)

\* 2^53 = 9007199254740992, split before its last LowDigits digits
LowDigits == 8
TwoTo53Hi == 90071992
TwoTo53Lo == 54740992

\* the float nearest to a * 2^53 + b / FloatUnit, ties to the even mantissa:
\* between 2^53 * 2^k and 2^53 * 2^(k+1) floats are 2^(k+1) apart
round_to_float(a, b) ==
  IF a = 0 THEN <<0, b>>
  ELSE LET step == FloatUnit * 2 * pow2(floor_log2(a))
           down == b \div step
           rest == b % step
           up == 2 * rest > step \/ (2 * rest = step /\ down % 2 = 1)
       IN <<a, (IF up THEN down + 1 ELSE down) * step>>

\* the whole digits and the fraction digits of a decimal text
decimal_parts(cs) ==
  LET dots == {i \in 1..Len(cs) : cs[i] = "."}
  IN IF dots = {} THEN <<cs, <<>>>>
     ELSE CHOOSE parts \in {<<SubSeq(cs, 1, dot - 1), SubSeq(cs, dot + 1, Len(cs))>> :
                              dot \in dots} : TRUE

\* the integer hi * 10^LowDigits + lo and the fraction frac / FloatUnit, as <<a, b>>
split_at_two_to_53(hi, lo, frac) ==
  IF hi > TwoTo53Hi \/ (hi = TwoTo53Hi /\ lo >= TwoTo53Lo)
    THEN <<1, ((hi - TwoTo53Hi) * pow10(LowDigits) + (lo - TwoTo53Lo)) * FloatUnit + frac>>
  ELSE <<0, (hi * pow10(LowDigits) + lo) * FloatUnit + frac>>

\* the exact value of a decimal text below 2^54, as <<a, b>>
decimal_value(cs) ==
  CHOOSE value \in
    {split_at_two_to_53(
       digits_upto(parts[1], IF Len(parts[1]) > LowDigits
                             THEN Len(parts[1]) - LowDigits ELSE 0),
       digits_value(SubSeq(parts[1],
                           IF Len(parts[1]) > LowDigits
                           THEN Len(parts[1]) - LowDigits + 1 ELSE 1,
                           Len(parts[1]))),
       (digits_value(parts[2]) * FloatUnit) \div pow10(Len(parts[2]))) :
     parts \in {decimal_parts(cs)}} : TRUE

\* float(text) of a decimal text
float(cs) ==
  CHOOSE q \in {round_to_float(d[1], d[2]) : d \in {decimal_value(cs)}} : TRUE

\* x + y of two floats
float_add(x, y) == round_to_float(x[1] + y[1], x[2] + y[2])

\* int(q) of a float q >= 0: the integer a * 2^53 + w, held as <<a, w>>
int(q) == <<q[1], q[2] \div FloatUnit>>

\* str(n) of an integer <<a, w>>, computed in limbs of LimbDigits digits
LimbDigits == 4
TwoTo53Limbs == <<992, 5474, 1992, 9007>>
RECURSIVE limbs_from(_, _, _)
limbs_from(a, k, carry) ==
  IF k > Len(TwoTo53Limbs) /\ carry = 0 THEN <<>>
  ELSE CHOOSE limbs \in
         {<<raw % pow10(LimbDigits)>> \o limbs_from(a, k + 1, raw \div pow10(LimbDigits)) :
          raw \in {(IF k <= Len(TwoTo53Limbs) THEN a * TwoTo53Limbs[k] ELSE 0)
                   + carry}} : TRUE
padded_limb(n) ==
  (IF n < 1000 THEN "0" ELSE "") \o (IF n < 100 THEN "0" ELSE "") \o
  (IF n < 10 THEN "0" ELSE "") \o Str(n)
RECURSIVE padded_limbs(_, _)
padded_limbs(limbs, k) ==
  IF k = 0 THEN "" ELSE padded_limb(limbs[k]) \o padded_limbs(limbs, k - 1)
str_of_int(n) ==
  IF n[1] = 0 THEN Str(n[2])
  ELSE CHOOSE text \in
         {Str(limbs[Len(limbs)]) \o padded_limbs(limbs, Len(limbs) - 1) :
          limbs \in {limbs_from(n[1], 1, n[2])}} : TRUE

\* sum(q for _, q in all_holders[lo..hi]); every partial sum of the quantities
\* of one contract is exact in a float, so the order of the additions and the
\* summation algorithm of the interpreter do not change the result
RECURSIVE sum_quantities(_, _, _)
sum_quantities(all_holders, lo, hi) ==
  IF lo > hi THEN <<0, 0>>
  ELSE IF lo = hi THEN all_holders[lo][2]
  ELSE CHOOSE total \in
         {float_add(x, y) :
            x \in {sum_quantities(all_holders, lo, (lo + hi) \div 2)},
            y \in {sum_quantities(all_holders, (lo + hi) \div 2 + 1, hi)}} : TRUE

\* what the remote list API answers to one page request
Contracts == {"0xc1", "0xc2"}
Actors == {<<"x">>}
QuantityTexts(contract_address) ==
  IF contract_address = "0xc1"
    THEN << <<"3">>, <<"2", ".", "5">>, <<"0", ".", "7", "5">> >>
  ELSE << <<"9", "0", "0", "7", "1", "9", "9", "2", "5", "4", "7", "4", "0", "9", "9", "3">> >>
ResultLens == {0, 1, 100, 900}
Responses ==
  {[raises |-> TRUE, status_code |-> 0, status |-> "", n |-> 0],
   [raises |-> FALSE, status_code |-> 500, status |-> "", n |-> 0],
   [raises |-> FALSE, status_code |-> 200, status |-> "0", n |-> 0]}
  \cup {[raises |-> FALSE, status_code |-> 200, status |-> "1", n |-> k] :
          k \in ResultLens}

\* the address of holder number n of a token, an opaque text
Address(number) == <<"holder", number>>
QuantityText(contract_address, number) ==
  QuantityTexts(contract_address)[(number % Len(QuantityTexts(contract_address))) + 1]

\* record i of the page that was asked for: holder number (page-1)*offset + i
holder(contract_address, page, i) ==
  [TokenHolderAddress |-> Address((page - 1) * offset + i),
   TokenHolderQuantity |-> QuantityText(contract_address, (page - 1) * offset + i)]

\* data.get("result")
result_list(resp, contract_address, page) ==
  [i \in 1..resp.n |-> holder(contract_address, page, i)]

\* the for loop without its break: every record of the page is appended
appended_whole_page(f, resp) ==
  [i \in 1..resp.n |-> <<result_list(resp, f.contract_address, f.page)[i].TokenHolderAddress,
                         float(result_list(resp, f.contract_address, f.page)[i].TokenHolderQuantity)>>]

\* the for loop keeping one entry per address: a record whose address is
\* already held is skipped
appended_new_addresses(f, resp) ==
  LET known(record) == \E j \in 1..Len(f.all_holders) : f.all_holders[j][1] = record[1]
      fresh(record) == ~known(record)
  IN SelectSeq(appended_whole_page(f, resp), fresh)

\* the records the for loop appends: it stops once len(all_holders) >= max_holders
appended(f, resp) ==
  [i \in 1..(IF resp.n < max_holders - Len(f.all_holders) THEN resp.n
             ELSE IF max_holders - Len(f.all_holders) < 1 THEN 1
             ELSE max_holders - Len(f.all_holders)) |->
     <<result_list(resp, f.contract_address, f.page)[i].TokenHolderAddress,
       float(result_list(resp, f.contract_address, f.page)[i].TokenHolderQuantity)>>]

\* one pass of the while loop that gives up on nothing: the error count starts
\* over at the limit instead of ending the loop
fetch_page_keeps_retrying(f, resp) ==
  IF resp.status_code # 200 \/ resp.status # "1"
    THEN [f EXCEPT !.error_count = (f.error_count + 1) % max_consecutive_errors]
  ELSE IF result_list(resp, f.contract_address, f.page) = <<>>
    THEN [f EXCEPT !.error_count = 0, !.pc = "break"]
  ELSE CHOOSE next \in
         {IF \/ Len(all_holders) >= max_holders
             \/ Len(result_list(resp, f.contract_address, f.page)) < offset
            THEN [f EXCEPT !.error_count = 0, !.all_holders = all_holders, !.pc = "break"]
          ELSE [f EXCEPT !.error_count = 0, !.all_holders = all_holders, !.page = @ + 1] :
          all_holders \in {f.all_holders \o appended(f, resp)}} : TRUE

\* one pass of the while loop that takes only an empty page for the end of
\* the data: a short page is followed by a request for the next page
fetch_page_ignores_short_page(f, resp) ==
  IF resp.status_code # 200 \/ resp.status # "1"
    THEN [f EXCEPT !.error_count = @ + 1,
                   !.pc = IF f.error_count + 1 >= max_consecutive_errors
                            THEN "break" ELSE "loop"]
  ELSE IF result_list(resp, f.contract_address, f.page) = <<>>
    THEN [f EXCEPT !.error_count = 0, !.pc = "break"]
  ELSE CHOOSE next \in
         {IF Len(all_holders) >= max_holders
            THEN [f EXCEPT !.error_count = 0, !.all_holders = all_holders, !.pc = "break"]
          ELSE [f EXCEPT !.error_count = 0, !.all_holders = all_holders, !.page = @ + 1] :
          all_holders \in {f.all_holders \o appended(f, resp)}} : TRUE

\* one pass of the while loop on a response that was received; pc = "break"
\* when the pass leaves the loop
fetch_page(f, resp) ==
  IF resp.status_code # 200 \/ resp.status # "1"
    THEN [f EXCEPT !.error_count = @ + 1,
                   !.pc = IF f.error_count + 1 >= max_consecutive_errors
                            THEN "break" ELSE "loop"]
  ELSE IF result_list(resp, f.contract_address, f.page) = <<>>
    THEN [f EXCEPT !.error_count = 0, !.pc = "break"]
  ELSE CHOOSE next \in
         {IF \/ Len(all_holders) >= max_holders
             \/ Len(result_list(resp, f.contract_address, f.page)) < offset
            THEN [f EXCEPT !.error_count = 0, !.all_holders = all_holders, !.pc = "break"]
          ELSE [f EXCEPT !.error_count = 0, !.all_holders = all_holders, !.page = @ + 1] :
          all_holders \in {f.all_holders \o appended(f, resp)}} : TRUE

\* total_supply, total_holders and the CSV rows computed after the loop
after_loop(f) ==
  [f EXCEPT
     !.total_supply = int(sum_quantities(f.all_holders, 1, Len(f.all_holders))),
     !.total_holders = Len(f.all_holders),
     !.csv = <<<<"TokenHolderAddress", "TokenHolderQuantity">>>> \o
             [i \in 1..Len(f.all_holders) |->
                <<f.all_holders[i][1], str_of_int(int(f.all_holders[i][2]))>>]]

\* an audit row that carries the cap where the holder count goes
audit_row_of_cap(f) ==
  <<f.actor, f.contract_address, Str(max_holders), str_of_int(f.total_supply)>>

\* the audit row appended to the log sheet
audit_row(f) ==
  <<f.actor, f.contract_address, Str(f.total_holders), str_of_int(f.total_supply)>>

\* /snapshot is invoked: the handler awaits interaction.response.defer
SnapshotStart(actor, contract_address) ==
  /\ fetch.pc = "idle"
  /\ fetch' = [NoFetch EXCEPT !.pc = "defer", !.actor = actor,
                              !.contract_address = contract_address]
  /\ UNCHANGED <<storeVars, bindVars, walletVars, upsertCall>>

\* Discord answers the defer and the handler awaits followup.send("Fetching
\* token holders... (page 1)"); ok = FALSE is Discord raising: the await is
\* outside the try, the exception leaves the handler and nothing is sent
SnapshotDeferred(ok) ==
  /\ fetch.pc = "defer"
  /\ fetch' = [fetch EXCEPT !.pc = IF ok THEN "announce" ELSE "aborted"]
  /\ UNCHANGED <<storeVars, bindVars, walletVars, upsertCall>>

\* Discord answers the send of the progress message: the locals are set and
\* the first pass awaits progress_message.edit; ok = FALSE is Discord raising,
\* outside the try as well
SnapshotAnnounced(ok) ==
  /\ fetch.pc = "announce"
  /\ fetch' = IF ok THEN [fetch EXCEPT !.pc = "loop", !.page = 1]
              ELSE [fetch EXCEPT !.pc = "aborted"]
  /\ UNCHANGED <<storeVars, bindVars, walletVars, upsertCall>>

\* one page request and everything up to the next await: the next pass of the
\* loop, or the totals, the CSV and the audit row once the loop is left, or the
\* friendly error when the request or the sheets_call of the audit row raises
FetchPage(resp) ==
  /\ fetch.pc = "loop"
  /\ IF resp.raises
       THEN /\ fetch' = [fetch EXCEPT !.pc = "failed", !.sent = <<"error">>]
            /\ UNCHANGED storeVars
     ELSE \E f \in {fetch_page(fetch, resp)} :
            IF f.pc = "break"
              THEN \E g \in {after_loop(f)} :
                     \E st \in {append_row(Store, LOG_SHEET, audit_row(g))} :
                       /\ StoreIs(st)
                       /\ fetch' = IF st.remote.raised # "none"
                                     THEN [g EXCEPT !.pc = "failed", !.sent = <<"error">>]
                                   ELSE [g EXCEPT !.pc = "send"]
            ELSE /\ fetch' = f
                 /\ UNCHANGED storeVars
  /\ UNCHANGED <<bindVars, walletVars, upsertCall>>

\* progress_message.edit("Snapshot completed! ...") and followup.send(summary, CSV)
SnapshotSend ==
  /\ fetch.pc = "send"
  /\ fetch' = [fetch EXCEPT !.pc = "done", !.sent = <<"summary">>]
  /\ UNCHANGED <<storeVars, bindVars, walletVars, upsertCall>>

InitFetch ==
  /\ InitStore
  /\ hubMessages = <<>>
  /\ clock = 0
  /\ bindReq = [r \in BindSlots |-> IdleReq]
  /\ InitWalletIdle

NextFetch ==
  \/ \E actor \in Actors, contract_address \in Contracts :
       SnapshotStart(actor, contract_address)
  \/ \E ok \in BOOLEAN : SnapshotDeferred(ok)
  \/ \E ok \in BOOLEAN : SnapshotAnnounced(ok)
  \/ \E resp \in Responses : FetchPage(resp)
  \/ SnapshotSend

SpecFetch == InitFetch /\ [][NextFetch]_vars

\* the event loop resumes the command after every await
FairSpecFetch ==
  /\ SpecFetch
  /\ WF_vars(\E resp \in Responses : FetchPage(resp))
  /\ WF_vars(SnapshotSend)

\* what the sheets_call of the audit row meets when the store fails: an error
\* that is raised at once, a rate-limit response and then success, or a
\* rate-limit response whose response object is false, as an HTTP error
\* response is
AuditOutcomes ==
  {<<APIError(403, TRUE)>>, <<APIError(429, TRUE)>>, <<APIError(429, FALSE)>>}

\* InitFetch, with a store that may fail at the first sheets_call of the run,
\* the append of the audit row
InitFetchFail ==
  /\ sheets = [t \in Titles |-> <<>>]
  /\ worksheets = {LOG_SHEET}
  /\ ws_cache = {}
  /\ values_cache = [t \in Titles |-> None]
  /\ remote \in {NoFailures} \cup
                {[countdown |-> 1, outcomes |-> outcomes, run |-> sheets_call(outcomes),
                  met |-> FALSE, raised |-> "none"] : outcomes \in AuditOutcomes}
  /\ hubMessages = <<>>
  /\ clock = 0
  /\ bindReq = [r \in BindSlots |-> IdleReq]
  /\ InitWalletIdle

SpecFetchFail == InitFetchFail /\ [][NextFetch]_vars

-----------------------------------------------------------------------------
(* /snapshot on the event loop.  The bot runs every handler on one thread:  *)
(* a handler gives the thread back at an await and keeps it through every   *)
(* synchronous call.  requests.get, time.sleep and sheets_call are          *)
(* synchronous, so the pass of the loop that FetchPage takes in one step is *)
(* taken here in the steps the thread goes through: fetch.pc is "request"   *)
(* inside requests.get, "backoff" and "delay" inside time.sleep(0.5), and   *)
(* "store" inside sheets_call(worksheet.append_row, ...).                   *)

\* the thread is inside a synchronous call of /snapshot
InSynchronousCall == fetch.pc \in {"request", "backoff", "delay", "store"}

\* await progress_message.edit(...) returned: response = requests.get(...)
RequestPage ==
  /\ fetch.pc = "loop"
  /\ fetch' = [fetch EXCEPT !.pc = "request"]
  /\ UNCHANGED <<storeVars, bindVars, walletVars, upsertCall>>

\* requests.get returns resp or raises, and the pass goes on to its next
\* synchronous call: time.sleep(0.5) after a failed response or before the next
\* page, the append of the audit row once the loop is left
PageArrives(resp) ==
  /\ fetch.pc = "request"
  /\ IF resp.raises
       THEN fetch' = [fetch EXCEPT !.pc = "failed", !.sent = <<"error">>]
     ELSE \E f \in {fetch_page([fetch EXCEPT !.pc = "loop"], resp)} :
            IF f.pc = "break"
              THEN \E g \in {after_loop(f)} : fetch' = [g EXCEPT !.pc = "store"]
            ELSE fetch' = [f EXCEPT !.pc = IF f.page = fetch.page THEN "backoff"
                                           ELSE "delay"]
  /\ UNCHANGED <<storeVars, bindVars, walletVars, upsertCall>>

\* time.sleep(0.5) returns; the next pass awaits progress_message.edit
SleepEnds ==
  /\ fetch.pc \in {"backoff", "delay"}
  /\ fetch' = [fetch EXCEPT !.pc = "loop"]
  /\ UNCHANGED <<storeVars, bindVars, walletVars, upsertCall>>

\* sheets_call(worksheet.append_row, ...) returns and the command awaits
\* progress_message.edit("Snapshot completed! ..."), or it raises and the
\* command sends the friendly error
AuditAppended ==
  /\ fetch.pc = "store"
  /\ \E st \in {append_row(Store, LOG_SHEET, audit_row(fetch))} :
       /\ StoreIs(st)
       /\ fetch' = IF st.remote.raised # "none"
                     THEN [fetch EXCEPT !.pc = "failed", !.sent = <<"error">>]
                   ELSE [fetch EXCEPT !.pc = "send"]
  /\ UNCHANGED <<bindVars, walletVars, upsertCall>>

\* the event loop runs the handler of another interaction, a "check" press of
\* user 1, when the thread is not inside a synchronous call
OtherRequest(message_id, n) ==
  /\ ~InSynchronousCall
  /\ ResolveCheck(message_id, n)

NextLoop ==
  \/ \E actor \in Actors, contract_address \in Contracts :
       SnapshotStart(actor, contract_address)
  \/ \E ok \in BOOLEAN : SnapshotDeferred(ok)
  \/ \E ok \in BOOLEAN : SnapshotAnnounced(ok)
  \/ RequestPage
  \/ \E resp \in Responses : PageArrives(resp)
  \/ SleepEnds
  \/ AuditAppended
  \/ SnapshotSend
  \/ \E message_id \in BoundHubs, n \in NamesOf(1) : OtherRequest(message_id, n)

SpecLoop == InitWallet /\ [][NextLoop]_vars

-----------------------------------------------------------------------------
(* Claims about /register_wallet, under SpecBind *)

BindingRows == sheets["bindings"]
PairRows(r) == BoundRows(BindingRows, bindReq[r].guild_id,
                         sheet_from_button_number(bindReq[r].button_number))

\* C1: after any interleaving of concurrent bind requests the bindings sheet
\* holds at most one row per (guild id, sheet name) pair.
C1_AtMostOneBindingPerPair ==
  \A g \in Guilds, b \in DOMAIN WALLET_SHEET_MAP :
    Cardinality(BoundRows(BindingRows, g, WALLET_SHEET_MAP[b])) <= 1

\* C3: a bind request without the refresh flag for a pair that already has a
\* binding row is rejected as a duplicate: no binding row is appended, no hub
\* message is posted and the binding rows stay as they are, in the step of the
\* duplicate check and in the step that delivers the rejection.
C3_DuplicateBindRejected ==
  [][\A r \in BindSlots :
       /\ (/\ bindReq[r].pc = "deferred"
           /\ bindReq'[r].pc # "deferred"
           /\ ~bindReq[r].edit_if_exists
           /\ PairRows(r) # {})
          => /\ bindReq'[r].pc = "replying"
             /\ bindReq'[r].sending = "duplicate"
             /\ BindingRows' = BindingRows
             /\ hubMessages' = hubMessages
       /\ (/\ bindReq[r].pc = "replying"
           /\ bindReq[r].sending = "duplicate"
           /\ bindReq'[r].pc # "replying")
          => /\ bindReq'[r].pc = "done"
             /\ bindReq'[r].reply \in {"duplicate", "error"}
             /\ BindingRows' = BindingRows
             /\ hubMessages' = hubMessages]_vars

\* C3 witness: a bind request was rejected as a duplicate of an existing row.
C3_Witness ==
  \E r \in BindSlots :
    /\ bindReq[r].reply = "duplicate"
    /\ PairRows(r) # {}
    /\ Len(hubMessages) = 1

\* C4: after a refresh of an already-bound pair there is exactly one row for
\* the pair and it carries the reference (the channel) the refresh came with.
C4_RefreshUpdatesReference ==
  \A r \in BindSlots :
    bindReq[r].reply = "refreshed"
    => /\ Cardinality(PairRows(r)) = 1
       /\ \A i \in PairRows(r) : BindingRows[i][2] = Str(bindReq[r].channel)

-----------------------------------------------------------------------------
(* Claims about the wallet hub, under SpecWallet *)

NamedSheets == {ALL_WALLET_SHEETS[i] : i \in 1..Len(ALL_WALLET_SHEETS)}
WalletSheets == NamedSheets \cup {MASTER_SHEET}

\* the rows of user u in sheet t, and the first of them
UserRows(t, u) == RowsOf(sheets[t], Str(u))
UserRow(t, u) == sheets[t][Min(UserRows(t, u))]

\* the sheet bound to hub message m
SheetOf(m) == get_binding_by_message(Store, m).sheet[1]

\* C2: after every completed wallet action, for every user and every named
\* scope in which the user has a row, the row's address equals the address of
\* the user's row in the master scope.
C2_NamedMatchesMaster ==
  \A u \in Users, t \in NamedSheets :
    \A i \in UserRows(t, u) :
      /\ UserRows(MASTER_SHEET, u) # {}
      /\ sheets[t][i][3] = UserRow(MASTER_SHEET, u)[3]

\* C5: starting from wallet scopes with at most one row per user id, after any
\* sequence and interleaving of wallet requests every wallet scope (master and
\* named) still has at most one row per user id.
C5_UniqueUserId ==
  \A t \in WalletSheets, u \in Users : Cardinality(UserRows(t, u)) <= 1

\* C5 witness: a registration has been submitted while a second register
\* dialog of the same user for the same scope is still open, and both users
\* have registered.
C5_Witness ==
  /\ last = [op |-> "submit", reply |-> "registered"]
  /\ \A u \in Users : UserRows(MASTER_SHEET, u) # {}
  /\ \E d \in 1..Len(dialogs) :
       /\ dialogs[d].kind = "modal"
       /\ ~dialogs[d].is_change
       /\ UserRows(dialogs[d].sheet_name, dialogs[d].user) # {}

\* C7: a Register on a named scope where the user has no row while the master
\* scope has a row for the user adds to the named scope exactly one row
\* [master name, user id, master address] without prompting, and leaves the
\* master scope and every other named scope unchanged.
C7_RegisterSyncsFromMaster ==
  [][\A m \in BoundHubs, u \in Users, n \in Names :
       (/\ PressRegister(m, u, n)
        /\ UserRows(SheetOf(m), u) = {}
        /\ UserRows(MASTER_SHEET, u) # {})
       => /\ last'.reply = "synced"
          /\ dialogs' = dialogs
          /\ sheets' = [sheets EXCEPT ![SheetOf(m)] =
               Append(@, <<UserRow(MASTER_SHEET, u)[1], Str(u),
                           UserRow(MASTER_SHEET, u)[3]>>)]]_vars

\* C8: when neither the named scope nor the master scope has a row for the
\* user, Register prompts for an address, and after the submit both scopes hold
\* a row for the user with the submitted address; a Register on a scope where
\* the user already has a row writes nothing.
C8_RegisterPromptsThenWritesBoth ==
  [][/\ \A m \in BoundHubs, u \in Users, n \in Names :
          PressRegister(m, u, n)
          => /\ (UserRows(SheetOf(m), u) = {} /\ UserRows(MASTER_SHEET, u) = {})
                => /\ last'.reply = "modal"
                   /\ dialogs' = Append(dialogs,
                        RegisterOrChangeWalletModal(u, SheetOf(m), FALSE, n))
                   /\ sheets' = sheets
             /\ UserRows(SheetOf(m), u) # {} => sheets' = sheets
     /\ \A d \in DialogSlots, value \in WalletInputs, n \in Names :
          (Submit(d, value, n) /\ ~dialogs[d].is_change)
          => \A t \in {dialogs[d].sheet_name, MASTER_SHEET} :
               \E i \in RowsOf(sheets'[t], Str(dialogs[d].user)) :
                 sheets'[t][i][3] = strip(value)]_vars

\* C9 as stated: no step of a change action (pressing Change, confirming,
\* submitting the new address) creates a row in a named scope.
C9_ChangeCreatesNoRow ==
  [][(\/ last'.op \in {"change", "confirm"}
      \/ last' = [op |-> "submit", reply |-> "changed"])
     => \A t \in NamedSheets : Len(sheets'[t]) = Len(sheets[t])]_vars

\* C9 amended: submitting a change updates the master row and overwrites name
\* and address in every named scope where the user has a row at that time, and
\* creates no row in any named scope.  Pressing Change writes to no scope but
\* the one bound to the pressed hub, where it enrols the user from the master
\* record when the user has a master wallet and no wallet in that scope.
C9_ChangeUpdatesEnrolledScopes ==
  [][/\ last'.op = "submit" =>
        \A d \in DialogSlots, value \in WalletInputs, n \in Names :
          (Submit(d, value, n) /\ dialogs[d].is_change)
          => LET u == dialogs[d].user
                 new == <<dialogs[d].user_name, Str(u), strip(value)>>
             IN /\ \A t \in NamedSheets :
                     /\ Len(sheets'[t]) = Len(sheets[t])
                     /\ \A i \in 1..Len(sheets[t]) :
                          sheets'[t][i] = IF i \in UserRows(t, u) THEN new
                                          ELSE sheets[t][i]
                /\ \E i \in RowsOf(sheets'[MASTER_SHEET], Str(u)) :
                     sheets'[MASTER_SHEET][i] = new
                /\ \A i \in 1..Len(sheets[MASTER_SHEET]) :
                     i \notin UserRows(MASTER_SHEET, u)
                     => sheets'[MASTER_SHEET][i] = sheets[MASTER_SHEET][i]
     /\ last'.op = "confirm" =>
        \A d \in DialogSlots : PressConfirm(d) => sheets' = sheets
     /\ last'.op = "change" =>
        \A m \in BoundHubs, u \in Users, n \in Names :
          PressChange(m, u, n)
          => LET t == SheetOf(m)
                 here == lookup_wallet_in_sheet(Store, t, Str(u))
                 master == lookup_wallet_in_sheet(Store, MASTER_SHEET, Str(u))
                 enrol == <<master.name[1], Str(u), master.wallet[1]>>
             IN IF ~Truthy(here.wallet) /\ Truthy(master.wallet)
                THEN /\ last'.reply = "confirm"
                     /\ sheets' = [sheets EXCEPT ![t] =
                          IF UserRows(t, u) = {} THEN Append(@, enrol)
                          ELSE [@ EXCEPT ![Min(UserRows(t, u))] = enrol]]
                ELSE sheets' = sheets]_vars

\* C9 witness: a change has been submitted by a user who has a row in the
\* master scope and in both bound named scopes, all carrying the new address,
\* while the unbound named scope has no row.
C9_Witness ==
  /\ last = [op |-> "submit", reply |-> "changed"]
  /\ \E u \in Users :
       /\ \A t \in {SheetOf(m) : m \in BoundHubs} \cup {MASTER_SHEET} :
            /\ UserRows(t, u) # {}
            /\ UserRow(t, u)[3] = <<"B">>
       /\ \A t \in NamedSheets \ {SheetOf(m) : m \in BoundHubs} : sheets[t] = <<>>

-----------------------------------------------------------------------------
(* Claims about _upsert_wallet, under SpecUpsert *)

\* C6: calling _upsert_wallet(scope, name, id, address) twice in a row with
\* identical arguments leaves exactly one row for the id in the scope, holding
\* [name, id, address], and the second call appends nothing.
C6_UpsertIdempotent ==
  [][upsertCall'.n = upsertCall.n + 1
     => LET t == upsertCall.title
            mine == RowsOf(sheets'[t], upsertCall.user_id)
        IN /\ Cardinality(mine) = 1
           /\ \A i \in mine :
                sheets'[t][i] =
                  <<upsertCall.user_name, upsertCall.user_id, upsertCall.wallet>>
           /\ upsertCall.n = 1 => sheets' = sheets]_vars

\* C6 witness: both calls are made, on a sheet that held MaxRows rows of other
\* users: the first call appended the row and the second found it.
C6_Witness ==
  /\ upsertCall.n = 2
  /\ Len(sheets[upsertCall.title]) = MaxRows + 1
  /\ RowsOf(sheets[upsertCall.title], upsertCall.user_id) = {MaxRows + 1}

-----------------------------------------------------------------------------
(* Claims about /snapshot, under FairSpecFetch *)

\* C10: whatever the remote list API answers (failed requests, empty, short
\* and full pages in any mix), a snapshot run that has entered its fetch loop
\* eventually leaves it.
C10_FetchLoopTerminates ==
  (fetch.pc = "loop") ~> (fetch.pc \in {"send", "done", "failed"})

\* C10 witness: the loop was left on the fifth consecutive error, after pages
\* of records had been accumulated.
C10_Witness ==
  /\ fetch.pc = "send"
  /\ fetch.error_count = max_consecutive_errors
  /\ fetch.page > 2
  /\ Len(fetch.all_holders) > offset

-----------------------------------------------------------------------------
(* Claims about the pages of /snapshot, under SpecFetch *)

\* a page request that failed: the request raised, the HTTP status is not 200,
\* or the body does not carry status "1"
FailedRequest(resp) ==
  resp.raises \/ resp.status_code # 200 \/ resp.status # "1"

\* C11: every failed page request (transport failure, non-success status,
\* missing success indicator) short of the error limit is retried with the
\* same page number; the page number advances by exactly one, and only after
\* a successful full page that did not reach the cap; a successful page is
\* never requested again.
C11_FailedRequestRetriedSamePage ==
  [][\A resp \in Responses :
       FetchPage(resp)
       => /\ (FailedRequest(resp) /\ fetch.error_count + 1 < max_consecutive_errors)
             => (fetch'.pc = "loop" /\ fetch'.page = fetch.page)
          /\ fetch'.page # fetch.page
             => /\ fetch'.page = fetch.page + 1
                /\ ~FailedRequest(resp)
                /\ resp.n >= offset
                /\ Len(fetch'.all_holders) < max_holders
          /\ (~FailedRequest(resp) /\ fetch'.pc = "loop")
             => fetch'.page = fetch.page + 1]_vars

\* C12: the loop stops because of errors exactly when 5 page requests in a
\* row have failed (a successful response resets the count to 0, 4 or fewer
\* failures in a row never end the run), and a run stopped this way still
\* produces the summary, the CSV and the audit row from the records it has,
\* instead of raising an error.
C12_StopsOnFifthConsecutiveError ==
  [][\A resp \in Responses :
       FetchPage(resp)
       => LET stopped == FailedRequest(resp) /\ fetch'.pc # "loop"
          IN /\ ~FailedRequest(resp) => fetch'.error_count = 0
             /\ (FailedRequest(resp) /\ ~stopped)
                => fetch'.error_count = fetch.error_count + 1
             /\ stopped <=> (/\ FailedRequest(resp)
                             /\ fetch.error_count + 1 = max_consecutive_errors)
             /\ stopped
                => /\ fetch'.pc = "send"
                   /\ fetch'.all_holders = fetch.all_holders
                   /\ fetch'.total_holders = Len(fetch.all_holders)
                   /\ Len(fetch'.csv) = Len(fetch.all_holders) + 1
                   /\ Len(sheets'[LOG_SHEET]) = Len(sheets[LOG_SHEET]) + 1]_vars

\* C13: the number of accumulated records never exceeds max_holders, and once
\* it reaches max_holders, in the middle of a page too, the loop has stopped
\* with exactly max_holders records and requests no further page.
C13_RecordCap ==
  /\ Len(fetch.all_holders) <= max_holders
  /\ Len(fetch.all_holders) = max_holders => fetch.pc \in {"send", "done"}

\* C13 witness: the cap was reached in the middle of the second page: the
\* last record kept is record 100 of that page.
C13_Witness ==
  /\ fetch.pc = "send"
  /\ fetch.page = 2
  /\ Len(fetch.all_holders) = max_holders
  /\ fetch.all_holders[max_holders][1] = Address(offset + 100)

\* the records of a page, as (address, float(quantity)) pairs in page order
PageRecords(resp, contract_address, page) ==
  [i \in 1..resp.n |->
     <<holder(contract_address, page, i).TokenHolderAddress,
       float(holder(contract_address, page, i).TokenHolderQuantity)>>]

\* the first max_holders entries of a sequence
CutToCap(records) ==
  SubSeq(records, 1, IF Len(records) < max_holders THEN Len(records)
                     ELSE max_holders)

\* C14: a successful page with zero records or fewer than offset records ends
\* the loop right after that page: its records are all accumulated (up to the
\* cap) and no further page is requested.
C14_ShortPageEndsLoop ==
  [][\A resp \in Responses :
       (~FailedRequest(resp) /\ resp.n < offset /\ FetchPage(resp))
       => /\ fetch'.pc = "send"
          /\ fetch'.page = fetch.page
          /\ fetch'.all_holders =
               CutToCap(fetch.all_holders \o
                        PageRecords(resp, fetch.contract_address, fetch.page))]_vars

\* C14 witness: two full pages were followed by a page of one record, which
\* was accumulated and ended the loop.
C14_Witness ==
  /\ fetch.pc = "send"
  /\ fetch.error_count = 0
  /\ fetch.page = 3
  /\ Len(fetch.all_holders) = 2 * offset + 1

\* how a finished loop was left: error_count is max_consecutive_errors only
\* after the fifth failure in a row, and the record count is max_holders only
\* when the cap was reached
EndedByErrorsOrCap ==
  \/ fetch.error_count = max_consecutive_errors
  \/ Len(fetch.all_holders) >= max_holders

\* C15: the result of a run carries a truncated signal that is true exactly
\* when the run ended by the error budget or the record cap, and false when
\* it ended by an empty or a short page.  The result is the summary (holder
\* count, "up to max_holders", total supply) and the CSV; what it says about
\* truncation is whether the holder count has reached max_holders.
C15_TruncatedSignal ==
  fetch.pc \in {"send", "done"}
  => ((fetch.total_holders >= max_holders) <=> EndedByErrorsOrCap)

\* the exact sum of the quantity texts of records lo..hi, as <<a, b>>
RECURSIVE ExactSum(_, _, _, _)
ExactSum(contract_address, records, lo, hi) ==
  IF lo > hi THEN <<0, 0>>
  ELSE IF lo = hi
    THEN decimal_value(QuantityText(contract_address, records[lo][1][2]))
  ELSE CHOOSE total \in
         {<<left[1] + right[1], left[2] + right[2]>> :
            left \in {ExactSum(contract_address, records, lo, (lo + hi) \div 2)},
            right \in {ExactSum(contract_address, records, (lo + hi) \div 2 + 1, hi)}} :
         TRUE

\* C16: the reported total is the truncation to an integer of the exact sum
\* of the untruncated quantities of all accumulated records.
C16_TotalIsExactSum ==
  fetch.pc \in {"send", "done"}
  => LET exact == ExactSum(fetch.contract_address, fetch.all_holders,
                           1, Len(fetch.all_holders))
     IN fetch.total_supply = <<exact[1], exact[2] \div FloatUnit>>

\* C18: every pass of the loop leaves the accumulated records as they were
\* when the request failed, and otherwise appends the records of the page, in
\* page order, up to the cap: nothing is dropped and nothing is merged, equal
\* addresses included.  When the loop is left the CSV is a header followed by
\* one row per accumulated record, in the order of accumulation.
C18_RecordsInFetchOrder ==
  [][\A resp \in Responses :
       FetchPage(resp)
       => /\ fetch'.all_holders =
               IF FailedRequest(resp) THEN fetch.all_holders
               ELSE CutToCap(fetch.all_holders \o
                             PageRecords(resp, fetch.contract_address, fetch.page))
          /\ fetch'.pc = "send"
             => /\ Len(fetch'.csv) = Len(fetch'.all_holders) + 1
                /\ \A i \in 1..Len(fetch'.all_holders) :
                     /\ fetch'.csv[i + 1][1] = fetch'.all_holders[i][1]
                     /\ fetch'.csv[i + 1][2] =
                          str_of_int(int(fetch'.all_holders[i][2]))]_vars

\* C18 witness: a page of more than offset records was followed by the next
\* page, which starts at a holder the first page already listed: the address is
\* held twice, and the CSV has both rows.
C18_Witness ==
  /\ fetch.pc = "send"
  /\ fetch.page = 2
  /\ Len(fetch.all_holders) = max_holders
  /\ fetch.all_holders[offset + 1][1] = fetch.all_holders[max_holders - offset + 1][1]
  /\ fetch.csv[offset + 2][1] = fetch.csv[max_holders - offset + 2][1]
  /\ Len(fetch.csv) = Len(fetch.all_holders) + 1

-----------------------------------------------------------------------------
(* sheets_call and the cache when the store fails (SpecStoreFail) *)

\* sheets_call takes the error for transient: an APIError whose code, read
\* from a response object that is true, is one of 429, 500, 502, 503, 504
Transient(o) == o.type = "APIError" /\ code(o) \in RetryCodes

\* how many errors taken for transient the failing call meets before anything
\* else
LeadingTransient(outcomes) ==
  CHOOSE k \in 0..Len(outcomes) :
    /\ \A i \in 1..k : Transient(outcomes[i])
    /\ k < Len(outcomes) => ~Transient(outcomes[k + 1])

\* the wrapped operation has raised an error that sheets_call does not take
\* for transient
FatalRaised ==
  /\ LeadingTransient(remote.outcomes) < Len(remote.outcomes)
  /\ remote.run.invocations > LeadingTransient(remote.outcomes)

\* C17: when the wrapped operation meets k responses with status 429, 500,
\* 502, 503 or 504 and then goes through, sheets_call invokes it k + 1 times
\* and returns, or 4 times when k >= 4 and then raises the error; the waits
\* before the retries are 0.5 s, 1 s, 2 s, ... (in milliseconds)
C17_AtMostFourInvocations ==
  (/\ remote.met
   /\ \A i \in 1..Len(remote.outcomes) :
        /\ remote.outcomes[i].type = "APIError"
        /\ remote.outcomes[i].status_code \in RetryCodes) =>
    \E k \in {Len(remote.outcomes)} :
      /\ remote.run.invocations = IF k >= 4 THEN 4 ELSE k + 1
      /\ remote.run.raised = IF k >= 4 THEN "APIError" ELSE "none"
      /\ remote.run.waits = [i \in 1..(remote.run.invocations - 1) |-> 500 * pow2(i - 1)]

\* C19 (as amended): an error that is not a response with status 429, 500,
\* 502, 503 or 504 is never taken for transient, and an error that sheets_call
\* does not take for transient, raised by the operation of the failing call at
\* its invocation i, ends sheets_call at that invocation with that error and
\* with no wait after the i - 1 waits before it, and the interaction is
\* answered with the friendly error
C19_FatalErrorFailsOperation ==
  [][(~remote.met /\ remote'.met) =>
       /\ \A i \in 1..Len(remote.outcomes) :
            (\/ remote.outcomes[i].type # "APIError"
             \/ remote.outcomes[i].status_code \notin RetryCodes)
            => ~Transient(remote.outcomes[i])
       /\ FatalRaised =>
            \E i \in {LeadingTransient(remote.outcomes) + 1} :
              /\ remote.run.invocations = i
              /\ remote.run.raised = remote.outcomes[i].type
              /\ Len(remote.run.waits) = i - 1
              /\ last'.reply = "error"]_vars

\* an interaction failed on an error with status 403, or one that is no
\* APIError, that came after a retry
C19_Witness ==
  /\ remote.met
  /\ FatalRaised
  /\ Len(remote.outcomes) = 2
  /\ remote.outcomes[2] \in FatalErrors
  /\ remote.run.invocations = 2
  /\ remote.run.waits = <<first_delay>>
  /\ last.reply = "error"

\* C19 (as stated): every error that is not a transient response makes the
\* interaction fail, WorksheetNotFound of spreadsheet.worksheet included (the
\* worksheet is added only where that error was raised)
C19_EveryOtherErrorFailsOperation ==
  [][/\ (~remote.met /\ remote'.met /\ FatalRaised) =>
          /\ remote.run.invocations = LeadingTransient(remote.outcomes) + 1
          /\ Len(remote.run.waits) = LeadingTransient(remote.outcomes)
          /\ last'.reply = "error"
     /\ worksheets' # worksheets => last'.reply = "error"]_vars

\* C20: between interactions, a cache entry that is present holds what the
\* sheet holds (it was read after the last write to the sheet)
C20_CacheInvalidatedOnWrite ==
  \A t \in Titles : values_cache[t] # None => values_cache[t] = Some(sheets[t])

-----------------------------------------------------------------------------
(* The bindings sheet is read fresh (SpecBindingReads) *)

\* the rows of the bindings sheet, as the spreadsheet holds them now, that
\* carry message_id
RowsOfMessage(message_id) ==
  {i \in Tail1(BindingRows) :
     Len(BindingRows[i]) >= 3 /\ BindingRows[i][3] = Str(message_id)}

\* the rows of the bindings sheet, as the spreadsheet holds them now, of guild_id
RowsOfGuild(guild_id) ==
  {i \in Tail1(BindingRows) :
     Len(BindingRows[i]) >= 5 /\ BindingRows[i][1] = Str(guild_id)}

\* C21: the bindings sheet is never cached, and every reader answers from the
\* rows the spreadsheet holds when it is called: a "check" press finds the
\* binding of its message exactly when a row carries the message id, the
\* listing shows one entry per row of the guild, and the duplicate check of
\* /register_wallet rejects exactly when a row binds the pair and no refresh
\* is asked for
C21_BindingsReadFresh ==
  [][/\ values_cache'["bindings"] = None
     /\ \A message_id \in HubMessages, n \in NamesOf(1) :
          ResolveCheck(message_id, n) =>
            (last'.reply = "error" <=> RowsOfMessage(message_id) = {})
     /\ \A g \in Guilds :
          (listReq.guild_id = g /\ ListBindings(TRUE)) =>
            /\ Len(last'.bindings) = Cardinality(RowsOfGuild(g))
            /\ \A i \in RowsOfGuild(g) : \E k \in 1..Len(last'.bindings) :
                 /\ last'.bindings[k].message_id = ToInt(BindingRows[i][3])
                 /\ last'.bindings[k].sheet_name = BindingRows[i][4]
     /\ BindCheck(1) =>
          (bindReq'[1].sending = "duplicate" <=>
             PairRows(1) # {} /\ ~bindReq[1].edit_if_exists)]_vars

\* the hub message that a row added by hand binds has been resolved by a
\* "check" press after an earlier read of the bindings sheet
C21_Witness ==
  /\ last.op = "check"
  /\ last.message_id = Cardinality(BoundHubs) + 1
  /\ last.reply # "error"
  /\ steps = 2
  /\ RowsOfMessage(Cardinality(BoundHubs) + 1) # {}

-----------------------------------------------------------------------------
(* The audit row of /snapshot (SpecFetchFail) *)

\* the response ends the fetch loop: the fifth failure in a row, an empty or a
\* short page, or the page that reaches the cap
LoopEnds(resp) ==
  /\ ~resp.raises
  /\ IF FailedRequest(resp)
       THEN fetch.error_count + 1 >= max_consecutive_errors
       ELSE resp.n < offset \/ Len(fetch.all_holders) + resp.n >= max_holders

\* the summary and the CSV have just been sent
SummarySent == fetch.sent # <<"summary">> /\ fetch'.sent = <<"summary">>

\* C23 (as stated): the pass that ends the fetch loop, however the store
\* answers, appends one row [actor, contract address, holder count, total
\* supply] to the log sheet, with the count and the total the summary shows,
\* and the summary and the CSV are sent only after that, when the row of this
\* run is the last row of the log sheet
C23_EveryEndedRunAppendsRow ==
  [][/\ \A resp \in Responses :
          (fetch.pc = "loop" /\ LoopEnds(resp) /\ FetchPage(resp)) =>
            /\ fetch'.total_holders = Len(fetch'.all_holders)
            /\ sheets'["log"] = Append(sheets["log"],
                 <<fetch.actor, fetch.contract_address,
                   Str(fetch'.total_holders), str_of_int(fetch'.total_supply)>>)
            /\ fetch'.sent = <<>>
     /\ SummarySent =>
          /\ sheets' = sheets
          /\ Len(sheets["log"]) = 1]_vars

\* C23 (as amended): the pass that ends the fetch loop appends one row [actor,
\* contract address, holder count, total supply] to the log sheet, with the
\* count and the total the summary shows, unless sheets_call raises in the
\* append: then no row is appended and the run ends with the friendly error
\* and sends no summary. Nothing else appends to the log sheet; the summary
\* and the CSV are sent only after the append, when the row of this run is the
\* last row of the log sheet
C23_AuditRowBeforeSummary ==
  [][/\ \A resp \in Responses :
          (fetch.pc = "loop" /\ LoopEnds(resp) /\ FetchPage(resp)) =>
            /\ fetch'.total_holders = Len(fetch'.all_holders)
            /\ IF remote.countdown = 1 /\ remote.run.raised # "none"
                 THEN /\ sheets' = sheets
                      /\ fetch'.pc = "failed"
                      /\ fetch'.sent = <<"error">>
               ELSE /\ sheets'["log"] = Append(sheets["log"],
                         <<fetch.actor, fetch.contract_address,
                           Str(fetch'.total_holders), str_of_int(fetch'.total_supply)>>)
                    /\ fetch'.sent = <<>>
     /\ sheets'["log"] # sheets["log"] =>
          \E resp \in Responses : LoopEnds(resp) /\ fetch.pc = "loop"
     /\ SummarySent =>
          /\ sheets' = sheets
          /\ Len(sheets["log"]) = 1
          /\ sheets["log"][1] =
               <<fetch.actor, fetch.contract_address,
                 Str(fetch'.total_holders), str_of_int(fetch'.total_supply)>>]_vars

\* the summary of a run of two full pages and a page of one record has been
\* sent, and the log sheet holds the row of the run, appended at the second
\* invocation after a rate-limit response
C23_Witness ==
  /\ remote.met
  /\ remote.run.invocations = 2
  /\ fetch.sent = <<"summary">>
  /\ fetch.total_holders = 2 * offset + 1
  /\ Len(sheets["log"]) = 1
  /\ sheets["log"][1][3] = Str(2 * offset + 1)

-----------------------------------------------------------------------------
(* What a "check" press writes (SpecWallet) *)

\* C24: a "check" press leaves the master sheet as it is and changes or
\* removes no row of any sheet; if it writes at all, it appends to the sheet
\* bound to the pressed hub one row that copies the user's master row, and
\* only when the user has a master row and no row in that sheet
C24_CheckOnlyEnrols ==
  [][last'.op = "check" =>
       \A m \in HubMessages, u \in Users : \A n \in NamesOf(u) :
         PressCheck(m, u, n) =>
           /\ sheets'[MASTER_SHEET] = sheets[MASTER_SHEET]
           /\ \A t \in Titles :
                /\ Len(sheets'[t]) >= Len(sheets[t])
                /\ \A i \in 1..Len(sheets[t]) : sheets'[t][i] = sheets[t][i]
           /\ \A t \in Titles :
                sheets'[t] # sheets[t] =>
                  /\ m \in BoundHubs
                  /\ t = SheetOf(m)
                  /\ UserRows(MASTER_SHEET, u) # {}
                  /\ UserRows(t, u) = {}
                  /\ sheets'[t] = Append(sheets[t], UserRow(MASTER_SHEET, u))]_vars

-----------------------------------------------------------------------------
(* Requests while /snapshot waits (SpecLoop) *)

\* C22: while /snapshot waits for a page, in the retry backoff, in the delay
\* between pages or in a store call, the handler of another request can run
C22_WaitingDoesNotBlock ==
  (InSynchronousCall /\ steps < MaxStoreSteps) =>
    ENABLED (\E message_id \in BoundHubs, n \in NamesOf(1) :
               OtherRequest(message_id, n))
====
